---- MODULE Spec2Model ----
(***************************************************************************)
(* Model of static/service-worker.js: the install, activate, fetch, push   *)
(* and notificationclick listeners of the BailSaaS service worker, with    *)
(* the host objects they drive (CacheStorage, the network, the displayed   *)
(* notifications, the window clients).                                     *)
(*                                                                         *)
(* A JavaScript string is a sequence of tokens, so that "/" and            *)
(* "https://host/" are different strings and resolving a relative URL is a *)
(* computation.  A JavaScript value is a record tagged by its type.        *)
(***************************************************************************)
EXTENDS Naturals, Sequences, FiniteSets, TLC

VARIABLES
  state,          \* the worker's lifecycle state (ServiceWorker.state)
  skipWaitingFlag,\* set by self.skipWaiting()
  caches,         \* CacheStorage: the buckets in creation order
  fetches,        \* the fetch events dispatched so far, one record each
  windows,        \* the open window clients, in the host's order
  notifications,  \* the notifications shown so far
  pushes,         \* the push events dispatched so far, one record each
  clicks          \* the notificationclick events dispatched so far

vars == <<state, skipWaitingFlag, caches, fetches, windows, notifications,
          pushes, clicks>>

---------------------------------------------------------------------------
(* Bounds of the model *)

MaxFetches == 3
MaxPushes == 1
MaxWindows == 1
MaxEvents == 3

---------------------------------------------------------------------------
(* JavaScript values *)

Undefined == [t |-> "undefined"]
Null == [t |-> "null"]
Str(s) == [t |-> "string", s |-> s]
Num(n) == [t |-> "number", n |-> n]
Obj(f) == [t |-> "object", f |-> f]
Response(b) == [t |-> "response", body |-> b]
NetworkError == [t |-> "error", name |-> "TypeError"]

\* ToBoolean, as the || operator applies it
ToBoolean(v) ==
  CASE v.t = "undefined" -> FALSE
    [] v.t = "null" -> FALSE
    [] v.t = "string" -> v.s # <<>>
    [] v.t = "number" -> v.n # 0
    [] OTHER -> TRUE

\* a || b
Or(a, b) == IF ToBoolean(a) THEN a ELSE b

---------------------------------------------------------------------------
(* URLs.  A relative URL is <<path>>, an absolute one <<origin, path>>. *)

Origin == "https://bailsaas.example"

\* URL resolution against the worker's base URL, as addAll, openWindow and
\* the Request constructor do it
Resolve(u) == IF Len(u) = 1 THEN <<Origin>> \o u ELSE u

CACHE == <<"bailsaas-v1">>

ASSETS == << <<"/">>, <<"/static/manifest.webmanifest">> >>

AssetUrls == {Resolve(ASSETS[i]) : i \in DOMAIN ASSETS}

\* the URLs pages request: the assets and one page outside the asset list
RequestUrls == AssetUrls \cup {<<Origin, "/dashboard">>}

Methods == {"GET", "POST"}

\* the responses the server may give for a URL
Responses == {Response("v1"), Response("v2")}

---------------------------------------------------------------------------
(* CacheStorage *)

BucketIndex(cs, name) == {i \in DOMAIN cs : cs[i].name = name}

\* caches.open(name): the bucket is created when it does not exist
CachesOpen(cs, name) ==
  IF BucketIndex(cs, name) # {} THEN cs
  ELSE Append(cs, [name |-> name, entries |-> <<>>])

\* caches.match(request): the first bucket, in creation order, with an entry
CachesMatch(cs, url) ==
  LET hits == {i \in DOMAIN cs : url \in DOMAIN cs[i].entries}
  IN IF hits = {} THEN Undefined
     ELSE cs[CHOOSE i \in hits : \A j \in hits : i <= j].entries[url]

\* c.put(request, response) on the bucket caches.open(name) gave
CachePut(cs, name, url, res) ==
  LET opened == CachesOpen(cs, name)
      i == CHOOSE j \in BucketIndex(opened, name) : TRUE
  IN [opened EXCEPT ![i].entries = (url :> res) @@ @]

\* mutant of CacheAddAll: add(urls[0]) in place of addAll(urls)
CacheAddAll_FirstOnly(cs, name, urls, rs) ==
  IF urls = <<>> THEN CachesOpen(cs, name)
  ELSE CachePut(cs, name, Resolve(Head(urls)), Head(rs))

\* c.addAll(urls) on the bucket caches.open(name) gave, rs[k] the response
\* fetched for urls[k]
RECURSIVE CacheAddAll(_, _, _, _)
CacheAddAll(cs, name, urls, rs) ==
  IF urls = <<>> THEN CachesOpen(cs, name)
  ELSE CacheAddAll(CachePut(cs, name, Resolve(Head(urls)), Head(rs)),
                   name, Tail(urls), Tail(rs))

\* the URLs that have an entry in some bucket
CachedUrls(cs) == UNION {DOMAIN cs[i].entries : i \in DOMAIN cs}

---------------------------------------------------------------------------
(* Initial state: the script has been evaluated, its listeners are bound *)

Init ==
  /\ state = "parsed"
  /\ skipWaitingFlag = FALSE
  /\ caches = <<>>
  /\ fetches = <<>>
  /\ windows = <<>>
  /\ notifications = <<>>
  /\ pushes = <<>>
  /\ clicks = <<>>

\* the notifications shown by a page of the site, not by the push listener
PageShown ==
  Len(notifications) - Cardinality({i \in DOMAIN pushes : pushes[i].shown # <<>>})

\* the events dispatched so far, the windows opened and the notifications
\* pages have shown: a run of the model has at most MaxEvents of them
Dispatched ==
  Len(fetches) + Len(pushes) + Len(clicks) + Len(windows) + PageShown

---------------------------------------------------------------------------
(* install *)

\* mutant of InstallEvent: self.skipWaiting() is not called
InstallEvent_NoSkipWaiting ==
  /\ state = "parsed"
  /\ state' = "installing"
  /\ caches' = CachesOpen(caches, CACHE)
  /\ UNCHANGED <<skipWaitingFlag, fetches, windows, notifications, pushes, clicks>>

\* the install listener runs: waitUntil(open.then(addAll)), skipWaiting()
InstallEvent ==
  /\ state = "parsed"
  /\ state' = "installing"
  /\ skipWaitingFlag' = TRUE
  /\ caches' = CachesOpen(caches, CACHE)
  /\ UNCHANGED <<fetches, windows, notifications, pushes, clicks>>

\* addAll resolves: every asset was fetched and all are stored at once
InstallSucceed(rs) ==
  /\ state = "installing"
  /\ caches' = CacheAddAll(caches, CACHE, ASSETS, rs)
  /\ state' = "installed"
  /\ UNCHANGED <<skipWaitingFlag, fetches, windows, notifications, pushes, clicks>>

\* addAll rejects (a fetch failed or was not ok): nothing is stored and the
\* worker is discarded
InstallFail ==
  /\ state = "installing"
  /\ state' = "redundant"
  /\ UNCHANGED <<skipWaitingFlag, caches, fetches, windows, notifications,
                 pushes, clicks>>

---------------------------------------------------------------------------
(* activate *)

\* self.clients.claim(): every open window becomes controlled
ClientsClaim(ws) == [i \in DOMAIN ws |-> [ws[i] EXCEPT !.controlled = TRUE]]

\* the installed worker with the skip-waiting flag is activated and the
\* activate listener runs
ActivateEvent ==
  /\ state = "installed"
  /\ skipWaitingFlag
  /\ state' = "activating"
  /\ windows' = ClientsClaim(windows)
  /\ UNCHANGED <<skipWaitingFlag, caches, fetches, notifications, pushes, clicks>>

\* the promise given to waitUntil settles
ActivateDone ==
  /\ state = "activating"
  /\ state' = "activated"
  /\ UNCHANGED <<skipWaitingFlag, caches, fetches, windows, notifications,
                 pushes, clicks>>

---------------------------------------------------------------------------
(* fetch *)

\* mutant of FetchListener: the method check is missing
FetchListener_AnyMethod(method, url) ==
  [method |-> method, url |-> url, pc |-> "match",
   respondWith |-> TRUE, matched |-> Undefined, matchCalled |-> TRUE,
   network |-> FALSE, response |-> Undefined, copy |-> Undefined]

\* the synchronous part of the fetch listener.  The record of a fetch event
\* also keeps two observations: atEvent, the cache's answer for the URL when
\* the event was dispatched, and storedAt, the number of fetch events
\* dispatched when its store completed.
FetchListener(method, url) ==
  IF method # "GET"
  THEN [method |-> method, url |-> url, pc |-> "returned",
        respondWith |-> FALSE, matched |-> Undefined, matchCalled |-> FALSE,
        network |-> FALSE, response |-> Undefined, copy |-> Undefined]
  ELSE [method |-> method, url |-> url, pc |-> "match",
        respondWith |-> TRUE, matched |-> Undefined, matchCalled |-> TRUE,
        network |-> FALSE, response |-> Undefined, copy |-> Undefined]

FetchEvent(method, url) ==
  /\ state = "activated"
  /\ Len(fetches) < MaxFetches
  /\ Dispatched < MaxEvents
  /\ fetches' = Append(fetches, FetchListener(method, url)
                                  @@ [atEvent |-> CachesMatch(caches, url),
                                      storedAt |-> 0])
  /\ UNCHANGED <<state, skipWaitingFlag, caches, windows, notifications,
                 pushes, clicks>>

\* mutant of MatchThen: network first, the cached response is not used
MatchThen_NetworkFirst(h, cached) ==
  [h EXCEPT !.pc = "network", !.matched = cached, !.network = TRUE]

\* caches.match(request).then((cached) => cached || fetch(request)...)
MatchThen(h, cached) ==
  IF ToBoolean(cached)
  THEN [h EXCEPT !.pc = "done", !.matched = cached, !.response = cached]
  ELSE [h EXCEPT !.pc = "network", !.matched = cached, !.network = TRUE]

MatchSettle(i) ==
  /\ i \in DOMAIN fetches
  /\ fetches[i].pc = "match"
  /\ fetches' = [fetches EXCEPT ![i] = MatchThen(@, CachesMatch(caches, @.url))]
  /\ UNCHANGED <<state, skipWaitingFlag, caches, windows, notifications,
                 pushes, clicks>>

\* fetch(request).then((res) => { copy = res.clone(); open.then(put); return res })
NetworkThen(h, res) ==
  [h EXCEPT !.pc = "put", !.copy = res, !.response = res]

NetworkRespond(i, res) ==
  /\ i \in DOMAIN fetches
  /\ fetches[i].pc = "network"
  /\ fetches' = [fetches EXCEPT ![i] = NetworkThen(@, res)]
  /\ UNCHANGED <<state, skipWaitingFlag, caches, windows, notifications,
                 pushes, clicks>>

\* mutant of NetworkFail: a catch callback that caches a fallback response
NetworkFail_CachesFallback(i) ==
  /\ i \in DOMAIN fetches
  /\ fetches[i].pc = "network"
  /\ fetches' = [fetches EXCEPT ![i] = [@ EXCEPT !.pc = "done", !.response = NetworkError]]
  /\ caches' = CachePut(caches, CACHE, fetches[i].url, Response("offline"))
  /\ UNCHANGED <<state, skipWaitingFlag, windows, notifications, pushes, clicks>>

\* fetch(request) rejects: no then-callback runs, respondWith gets the rejection
NetworkFail(i) ==
  /\ i \in DOMAIN fetches
  /\ fetches[i].pc = "network"
  /\ fetches' = [fetches EXCEPT ![i] = [@ EXCEPT !.pc = "done", !.response = NetworkError]]
  /\ UNCHANGED <<state, skipWaitingFlag, caches, windows, notifications,
                 pushes, clicks>>

\* mutant of PutThen: the bucket is opened and the put is forgotten
PutThen_NoPut(cs, h) == CachesOpen(cs, CACHE)

\* mutant of PutThen: the bucket keeps the newest entry only
PutThen_Evict(cs, h) ==
  LET opened == CachesOpen(cs, CACHE)
      i == CHOOSE j \in BucketIndex(opened, CACHE) : TRUE
  IN [opened EXCEPT ![i].entries = (h.url :> h.copy)]

\* mutant of PutThen: the copy is stored under the start page's URL
PutThen_WrongKey(cs, h) == CachePut(cs, CACHE, Resolve(<<"/">>), h.copy)

\* mutant of PutThen: the copy goes to a bucket of another name
PutThen_OtherBucket(cs, h) == CachePut(cs, <<"bailsaas-v2">>, h.url, h.copy)

\* caches.open(CACHE).then((c) => c.put(request, copy))
PutThen(cs, h) == CachePut(cs, CACHE, h.url, h.copy)

PutSettle(i) ==
  /\ i \in DOMAIN fetches
  /\ fetches[i].pc = "put"
  /\ caches' = PutThen(caches, fetches[i])
  /\ fetches' = [fetches EXCEPT ![i].pc = "stored", ![i].storedAt = Len(fetches)]
  /\ UNCHANGED <<state, skipWaitingFlag, windows, notifications, pushes, clicks>>

---------------------------------------------------------------------------
(* push *)

\* what a statement or call ends with
Return(v) == [threw |-> FALSE, value |-> v]
Throw(name) == [threw |-> TRUE, error |-> name]

\* the message of a push event: none at all, or a text
NoData == [kind |-> "none"]
Text(js) == [kind |-> "text", json |-> js]
\* a text that is no JSON document
Malformed == [t |-> "malformed"]

\* e.data.json(): e.data is null without a message; JSON.parse of the text
DataJson(p) ==
  IF p.kind = "none" THEN Throw("TypeError")
  ELSE IF p.json.t = "malformed" THEN Throw("SyntaxError")
  ELSE Return(p.json)

\* mutant of ParseData: "let data;" without the initial {}
ParseData_NoInit(p) == IF DataJson(p).threw THEN Undefined ELSE DataJson(p).value

\* let data = {}; try { data = e.data.json(); } catch(_) {}
ParseData(p) == IF DataJson(p).threw THEN Obj(<<>>) ELSE DataJson(p).value

\* v.key
GetProp(v, key) ==
  IF v.t \in {"undefined", "null"} THEN Throw("TypeError")
  ELSE IF v.t = "object" /\ key \in DOMAIN v.f THEN Return(v.f[key])
  ELSE Return(Undefined)

\* mutant of Field: data.key ?? dflt, the default for a missing field only
Field_Nullish(data, key, dflt) ==
  IF GetProp(data, key).value \in {Undefined, Null} THEN Str(dflt)
  ELSE GetProp(data, key).value

\* data.key || dflt, for a data that has properties
Field(data, key, dflt) == Or(GetProp(data, key).value, Str(dflt))

\* the notification showNotification(title, {body, data: {url}, icon, badge}) shows
Notification(title, body, url) ==
  [title |-> title.s, body |-> body.s, data |-> Obj([url |-> url]),
   icon |-> <<"/static/icons/icon-192.png">>,
   badge |-> <<"/static/icons/icon-192.png">>, closed |-> FALSE]

\* the push listener: the notifications it shows, or the exception it ends with
PushListener(p) ==
  LET data == ParseData(p)
  IN IF GetProp(data, "title").threw
     THEN [payload |-> p, threw |-> TRUE, shown |-> <<>>]
     ELSE [payload |-> p, threw |-> FALSE,
           shown |-> <<Notification(Field(data, "title", <<"BailSaaS">>),
                                    Field(data, "body", <<>>),
                                    Field(data, "url", <<"/">>))>>]

PushEvent(p) ==
  /\ state = "activated"
  /\ Len(pushes) < MaxPushes
  /\ Dispatched < MaxEvents
  /\ pushes' = Append(pushes, PushListener(p))
  /\ notifications' = notifications \o PushListener(p).shown
  /\ UNCHANGED <<state, skipWaitingFlag, caches, fetches, windows, clicks>>

\* the values a field of the message object may have, when present
TitleValues == {Str(<<>>), Str(<<"T">>)}
BodyValues == {Str(<<>>), Str(<<"B">>)}
UrlValues == {Str(<<>>), Str(<<"/x">>), Str(<<Origin, "/x">>)}

\* the functions from a subset of the field names to their values
ObjectFields ==
  UNION {{f \in [ks -> TitleValues \cup BodyValues \cup UrlValues] :
             /\ "title" \in ks => f["title"] \in TitleValues
             /\ "body" \in ks => f["body"] \in BodyValues
             /\ "url" \in ks => f["url"] \in UrlValues} :
         ks \in SUBSET {"title", "body", "url"}}

\* the messages a push service may deliver
Payloads ==
  {NoData, Text(Malformed), Text(Null), Text(Num(5)), Text(Str(<<"hi">>))}
    \cup {Text(Obj(f)) : f \in ObjectFields}

\* one message of each kind: none, no JSON, null, an object with every field
CorePayloads ==
  {NoData, Text(Malformed), Text(Null),
   Text(Obj([title |-> Str(<<"T">>), body |-> Str(<<"B">>), url |-> Str(<<"/x">>)]))}

\* the data a page of the site may give a notification it shows itself:
\* none, an object without url, an object with an empty url
PageData == {Null, Obj(<<>>), Obj([url |-> Str(<<>>)])}

\* a page calls registration.showNotification: its notification is one of
\* the registration's, and a click on it is dispatched to the worker
PageShowNotification(d) ==
  /\ state = "activated"
  /\ Len(notifications) < MaxPushes
  /\ Dispatched < MaxEvents
  /\ notifications' = Append(notifications,
                             [Notification(Str(<<"page">>), Str(<<>>), Undefined)
                                EXCEPT !.data = d])
  /\ UNCHANGED <<state, skipWaitingFlag, caches, fetches, windows, pushes, clicks>>

---------------------------------------------------------------------------
(* window clients *)

PageUrls == {<<Origin, "/">>, <<Origin, "/x">>}

\* the user opens a page of the site; once the worker is the active one
\* (activating or activated), pages load under its control
UserOpenWindow(u) ==
  /\ state # "redundant"
  /\ Len(windows) < MaxWindows
  /\ Dispatched < MaxEvents
  /\ windows' = Append(windows, [url |-> u,
                                 controlled |-> state \in {"activating", "activated"}])
  /\ UNCHANGED <<state, skipWaitingFlag, caches, fetches, notifications,
                 pushes, clicks>>

---------------------------------------------------------------------------
(* notificationclick *)

\* mutant of TargetUrl: the notification's data is not read
TargetUrl_Root(n) == Str(<<"/">>)

\* e.notification.data?.url || "/"
TargetUrl(n) ==
  IF n.data.t \in {"undefined", "null"} THEN Str(<<"/">>)
  ELSE Or(GetProp(n.data, "url").value, Str(<<"/">>))

\* the synchronous part of the listener: close(), the target, matchAll starts
ClickListener(i, n) ==
  [notification |-> i, url |-> TargetUrl(n), pc |-> "matchAll",
   action |-> "none", client |-> 0, wasOpen |-> FALSE]

ClickEvent(i) ==
  /\ state = "activated"
  /\ i \in DOMAIN notifications
  /\ ~notifications[i].closed
  /\ Dispatched < MaxEvents
  /\ notifications' = [notifications EXCEPT ![i].closed = TRUE]
  /\ clicks' = Append(clicks, ClickListener(i, notifications[i]))
  /\ UNCHANGED <<state, skipWaitingFlag, caches, fetches, windows, pushes>>

\* clients.matchAll({ type: "window" }): the window clients the worker controls
MatchAll(ws) == {i \in DOMAIN ws : ws[i].controlled}

\* for (const c of list) { if (c.url === url && "focus" in c) ... }: the
\* clients of the list the comparison selects
Matching(ws, url) == {i \in MatchAll(ws) : Str(ws[i].url) = url}

\* a window that shows the page the URL names is open
Showing(ws, url) == {i \in DOMAIN ws : ws[i].url = Resolve(url.s)}

\* mutant of ClickThen: the openWindow fallback is missing
ClickThen_NoOpen(k, ws) ==
  IF Matching(ws, k.url) # {}
  THEN [k EXCEPT !.pc = "done", !.action = "focus",
                 !.client = CHOOSE i \in Matching(ws, k.url) :
                               \A j \in Matching(ws, k.url) : i <= j,
                 !.wasOpen = Showing(ws, k.url) # {}]
  ELSE [k EXCEPT !.pc = "done", !.wasOpen = Showing(ws, k.url) # {}]

\* .then(list => ...): focus the first selected client, else openWindow(url)
ClickThen(k, ws) ==
  IF Matching(ws, k.url) # {}
  THEN [k EXCEPT !.pc = "done", !.action = "focus",
                 !.client = CHOOSE i \in Matching(ws, k.url) :
                               \A j \in Matching(ws, k.url) : i <= j,
                 !.wasOpen = Showing(ws, k.url) # {}]
  ELSE [k EXCEPT !.pc = "done", !.action = "open",
                 !.client = Len(ws) + 1,
                 !.wasOpen = Showing(ws, k.url) # {}]

\* clients.openWindow(url)
OpenWindow(ws, url) == Append(ws, [url |-> Resolve(url.s), controlled |-> TRUE])

ClickSettle(j) ==
  /\ j \in DOMAIN clicks
  /\ clicks[j].pc = "matchAll"
  /\ clicks' = [clicks EXCEPT ![j] = ClickThen(@, windows)]
  /\ windows' = IF ClickThen(clicks[j], windows).action = "open"
                THEN OpenWindow(windows, clicks[j].url)
                ELSE windows
  /\ UNCHANGED <<state, skipWaitingFlag, caches, fetches, notifications, pushes>>

---------------------------------------------------------------------------

Lifecycle ==
  \/ InstallEvent
  \/ \E rs \in [DOMAIN ASSETS -> Responses] : InstallSucceed(rs)
  \/ InstallFail
  \/ ActivateEvent
  \/ ActivateDone

FetchSettle ==
  \/ \E i \in 1..MaxFetches : MatchSettle(i)
  \/ \E i \in 1..MaxFetches, r \in Responses : NetworkRespond(i, r)
  \/ \E i \in 1..MaxFetches : NetworkFail(i)
  \/ \E i \in 1..MaxFetches : PutSettle(i)

\* the worker with every kind of event
Next ==
  \/ Lifecycle
  \/ \E m \in Methods, u \in RequestUrls : FetchEvent(m, u)
  \/ FetchSettle
  \/ \E p \in CorePayloads : PushEvent(p)
  \/ \E u \in PageUrls : UserOpenWindow(u)
  \/ \E i \in 1..MaxPushes : ClickEvent(i)
  \/ \E j \in 1..MaxPushes : ClickSettle(j)

Spec == Init /\ [][Next]_vars

\* the host activates an installed worker whose skip-waiting flag is set, and
\* the promise of clients.claim() settles
SpecLive == Spec /\ WF_vars(ActivateEvent) /\ WF_vars(ActivateDone)

\* the worker with push and notificationclick events, the user's windows and
\* the notifications of pages, the messages drawn from all of Payloads
NextPush ==
  \/ Lifecycle
  \/ \E p \in Payloads : PushEvent(p)
  \/ \E d \in PageData : PageShowNotification(d)
  \/ \E u \in PageUrls : UserOpenWindow(u)
  \/ \E i \in 1..MaxPushes : ClickEvent(i)
  \/ \E j \in 1..MaxPushes : ClickSettle(j)

SpecPush == Init /\ [][NextPush]_vars

-----
(* Properties of the fetch listener and of the cache *)

Bucket(cs) == cs[CHOOSE i \in BucketIndex(cs, <<"bailsaas-v1">>) : TRUE].entries

\* C1: a GET fetch event for a URL that has a cache entry when the event is
\* dispatched is answered with a cached response for that URL (the entry it
\* had then, or one stored for that URL since), and its handler issues no
\* network fetch, whatever install, fetch, push and click events came before.
C1_CachedServedWithoutNetwork ==
  \A i \in DOMAIN fetches :
    LET h == fetches[i]
    IN (h.method = "GET" /\ ToBoolean(h.atEvent)) =>
         /\ ~h.network
         /\ h.pc \in {"match", "done"}
         /\ h.pc = "done" =>
              /\ h.response \in Responses
              /\ h.response = h.matched
              /\ \/ h.response = h.atEvent
                 \/ \E j \in DOMAIN fetches :
                      /\ j # i
                      /\ fetches[j].url = h.url
                      /\ fetches[j].pc = "stored"
                      /\ fetches[j].copy = h.response

\* a GET for a cached URL has been answered after a push event was handled
C1_Witness ==
  /\ pushes # <<>>
  /\ \E i \in DOMAIN fetches :
       /\ fetches[i].method = "GET"
       /\ ToBoolean(fetches[i].atEvent)
       /\ fetches[i].pc = "done"
       /\ fetches[i].response = fetches[i].atEvent

\* C2: a GET fetch event whose URL has no cache entry issues a network fetch;
\* the network response is the one the caller gets; once the store has
\* completed the bucket has an entry for the URL (this response, or the one a
\* concurrent handler stored for the same URL), and every GET for the URL
\* dispatched after the store completed is served from the cache without a
\* network fetch.
C2_MissFetchedReturnedStored ==
  \A i \in DOMAIN fetches :
    LET h == fetches[i]
    IN /\ (h.method = "GET" /\ h.pc # "match" /\ ~ToBoolean(h.matched)) => h.network
       /\ h.pc \in {"put", "stored"} =>
            /\ h.network
            /\ h.response \in Responses
            /\ h.copy = h.response
       /\ h.pc = "stored" =>
            /\ BucketIndex(caches, <<"bailsaas-v1">>) # {}
            /\ h.url \in DOMAIN Bucket(caches)
            /\ \E j \in DOMAIN fetches :
                 /\ fetches[j].url = h.url
                 /\ fetches[j].pc = "stored"
                 /\ Bucket(caches)[h.url] = fetches[j].copy
            /\ \A j \in DOMAIN fetches :
                 (j > h.storedAt /\ fetches[j].method = "GET"
                    /\ fetches[j].url = h.url) =>
                   /\ ~fetches[j].network
                   /\ fetches[j].pc = "done" => fetches[j].response \in Responses

\* a GET missed the cache, its response was stored, and a later GET for the
\* same URL has been served from the cache
C2_Witness ==
  \E i, j \in DOMAIN fetches :
    /\ fetches[i].pc = "stored"
    /\ ~ToBoolean(fetches[i].atEvent)
    /\ j > fetches[i].storedAt
    /\ fetches[j].url = fetches[i].url
    /\ fetches[j].pc = "done"
    /\ fetches[j].response = fetches[i].copy

\* C3: a fetch event whose method is not GET is not intercepted: respondWith
\* is not called, the cache is neither read nor written and no network fetch
\* is issued by the handler.
C3_NonGetNotIntercepted ==
  \A i \in DOMAIN fetches :
    LET h == fetches[i]
    IN h.method # "GET" =>
         /\ h.pc = "returned"
         /\ ~h.respondWith
         /\ ~h.matchCalled
         /\ ~h.network
         /\ h.response = Undefined
         /\ h.copy = Undefined
         /\ h.storedAt = 0

\* a POST for a URL that has a cache entry has been dispatched
C3_Witness ==
  \E i \in DOMAIN fetches :
    /\ fetches[i].method = "POST"
    /\ ToBoolean(fetches[i].atEvent)

\* C4: after a successful install, as long as no fetch event has stored a
\* response, the bucket "bailsaas-v1" is the only bucket and holds an entry
\* for the two URLs of the asset list and for no other URL.
C4_InstallPopulatesAssets ==
  (/\ state \in {"installed", "activating", "activated"}
   /\ \A i \in DOMAIN fetches : fetches[i].pc # "stored") =>
     /\ Len(caches) = 1
     /\ caches[1].name = <<"bailsaas-v1">>
     /\ DOMAIN caches[1].entries =
          {<<Origin, "/">>, <<Origin, "/static/manifest.webmanifest">>}
     /\ \A u \in DOMAIN caches[1].entries : caches[1].entries[u] \in Responses

\* the install has succeeded and no fetch event has been dispatched
C4_Witness ==
  /\ state = "installed"
  /\ fetches = <<>>
  /\ Cardinality(CachedUrls(caches)) = 2

\* C9: no step deletes a cache entry: every bucket stays, under its name,
\* and every URL with an entry in it keeps an entry.
C9_NeverPruned ==
  [][\A i \in DOMAIN caches :
       /\ i \in DOMAIN caches'
       /\ caches'[i].name = caches[i].name
       /\ DOMAIN caches[i].entries \subseteq DOMAIN caches'[i].entries]_vars

\* a fetch has added a third URL to the installed assets
C9_Witness ==
  /\ Cardinality(CachedUrls(caches)) = 3
  /\ \E i \in DOMAIN fetches : fetches[i].pc = "stored"

---------------------------------------------------------------------------
(* Properties of the push and notificationclick listeners *)

\* the message is a JSON object
IsObject(p) == p.kind = "text" /\ p.json.t = "object"

Has(p, key) == key \in DOMAIN p.json.f

\* C5 (as claimed): a click on a notification focuses a window when one that
\* shows the target URL is open, and opens a new window only when none is.
C5_FocusIffShowing ==
  \A k \in DOMAIN clicks :
    clicks[k].pc = "done" =>
      /\ clicks[k].wasOpen => clicks[k].action = "focus"
      /\ ~clicks[k].wasOpen => clicks[k].action = "open"

\* C6: a push whose message is an object with non-empty title T, body B and
\* url U shows one notification with title T, body B and data.url U; a click
\* on a notification targets its data.url, and either focuses a window whose
\* URL is that string or opens a window at that URL.
C6_FullPayloadShownAndClicked ==
  /\ \A i \in DOMAIN pushes :
       LET p == pushes[i].payload
       IN (/\ IsObject(p)
           /\ DOMAIN p.json.f = {"title", "body", "url"}
           /\ \A key \in DOMAIN p.json.f : ToBoolean(p.json.f[key])) =>
            /\ ~pushes[i].threw
            /\ Len(pushes[i].shown) = 1
            /\ pushes[i].shown[1].title = p.json.f["title"].s
            /\ pushes[i].shown[1].body = p.json.f["body"].s
            /\ pushes[i].shown[1].data = Obj([url |-> p.json.f["url"]])
  /\ \A k \in DOMAIN clicks :
       LET n == notifications[clicks[k].notification]
           U == IF n.data.t = "object" /\ "url" \in DOMAIN n.data.f
                THEN n.data.f["url"] ELSE Undefined
       IN (clicks[k].pc = "done" /\ ToBoolean(U)) =>
            /\ clicks[k].url = U
            /\ clicks[k].action \in {"focus", "open"}
            /\ clicks[k].client \in DOMAIN windows
            /\ clicks[k].action = "focus" => Str(windows[clicks[k].client].url) = U
            /\ clicks[k].action = "open" => windows[clicks[k].client].url = Resolve(U.s)

\* a notification of a full message has been clicked and a window focused
C6_Witness ==
  \E i \in DOMAIN pushes, k \in DOMAIN clicks :
    /\ IsObject(pushes[i].payload)
    /\ DOMAIN pushes[i].payload.json.f = {"title", "body", "url"}
    /\ pushes[i].shown = <<[notifications[clicks[k].notification] EXCEPT !.closed = FALSE]>>
    /\ pushes[i].shown[1].title = <<"T">>
    /\ clicks[k].action = "focus"

\* C7: a push whose message is no JSON raises no error out of the listener
\* and shows a notification titled "BailSaaS", with empty body and target "/".
C7_UnparsableGivesDefaults ==
  \A i \in DOMAIN pushes :
    pushes[i].payload = Text(Malformed) =>
      /\ ~pushes[i].threw
      /\ Len(pushes[i].shown) = 1
      /\ pushes[i].shown[1].title = <<"BailSaaS">>
      /\ pushes[i].shown[1].body = <<>>
      /\ pushes[i].shown[1].data = Obj([url |-> Str(<<"/">>)])

\* an unparsable message has been pushed and its notification is displayed
C7_Witness ==
  \E i \in DOMAIN pushes :
    /\ pushes[i].payload = Text(Malformed)
    /\ notifications # <<>>

\* C8 (as claimed): for a message object, each field that is present gives
\* its value to the notification and each absent field gives the default.
C8_PresentFieldUsed ==
  \A i \in DOMAIN pushes :
    LET p == pushes[i].payload
    IN IsObject(p) =>
         /\ Len(pushes[i].shown) = 1
         /\ pushes[i].shown[1].title =
              IF Has(p, "title") THEN p.json.f["title"].s ELSE <<"BailSaaS">>
         /\ pushes[i].shown[1].body =
              IF Has(p, "body") THEN p.json.f["body"].s ELSE <<>>
         /\ pushes[i].shown[1].data.f["url"] =
              IF Has(p, "url") THEN p.json.f["url"] ELSE Str(<<"/">>)

\* C8 (amended): for a message object, each field that is present and not the
\* empty string gives its value to the notification, and each field that is
\* absent or the empty string gives the default, each field on its own.
C8_NonEmptyFieldUsed ==
  \A i \in DOMAIN pushes :
    LET p == pushes[i].payload
        Used(key) == Has(p, key) /\ p.json.f[key].s # <<>>
    IN IsObject(p) =>
         /\ ~pushes[i].threw
         /\ Len(pushes[i].shown) = 1
         /\ pushes[i].shown[1].title =
              IF Used("title") THEN p.json.f["title"].s ELSE <<"BailSaaS">>
         /\ pushes[i].shown[1].body =
              IF Used("body") THEN p.json.f["body"].s ELSE <<>>
         /\ pushes[i].shown[1].data.f["url"] =
              IF Used("url") THEN p.json.f["url"] ELSE Str(<<"/">>)

\* a message with an empty title, a body and no url has been pushed
C8_Witness ==
  \E i \in DOMAIN pushes :
    /\ IsObject(pushes[i].payload)
    /\ DOMAIN pushes[i].payload.json.f = {"title", "body"}
    /\ pushes[i].payload.json.f["title"] = Str(<<>>)
    /\ pushes[i].payload.json.f["body"] = Str(<<"B">>)
    /\ Len(pushes[i].shown) = 1

\* C10 (as claimed): every push event, whatever its message, ends without an
\* error and with exactly one notification shown.
C10_EveryPushShowsOne ==
  \A i \in DOMAIN pushes : ~pushes[i].threw /\ Len(pushes[i].shown) = 1

---------------------------------------------------------------------------
(* Concurrent fetch events, failures, the frame of the cache *)

\* fetch events i < j are two GETs for the same URL, uncached when each was
\* dispatched, and j was dispatched before the store of i completed
Concurrent(i, j) ==
  /\ i < j
  /\ fetches[i].method = "GET" /\ fetches[j].method = "GET"
  /\ fetches[i].url = fetches[j].url
  /\ ~ToBoolean(fetches[i].atEvent) /\ ~ToBoolean(fetches[j].atEvent)
  /\ fetches[i].pc = "stored" => j <= fetches[i].storedAt

\* the buckets that have an entry for the URL
Holders(cs, url) == {b \in DOMAIN cs : url \in DOMAIN cs[b].entries}

\* C11: of two concurrent GETs for the same uncached URL, each one that gets
\* a network response is answered with it; once both have stored, the URL has
\* exactly one entry, in one bucket, equal to the response of one of the two
\* (or of a third handler for that URL that stored as well); every GET for
\* the URL dispatched after both stores is served from the cache without a
\* network fetch.
C11_ConcurrentMissesConverge ==
  \A i, j \in DOMAIN fetches :
    Concurrent(i, j) =>
      /\ \A h \in {i, j} :
           fetches[h].pc \in {"put", "stored"} =>
             fetches[h].response \in Responses /\ fetches[h].response = fetches[h].copy
      /\ (fetches[i].pc = "stored" /\ fetches[j].pc = "stored") =>
           /\ Cardinality(Holders(caches, fetches[i].url)) = 1
           /\ LET entry == Bucket(caches)[fetches[i].url]
                  others == {k \in DOMAIN fetches \ {i, j} :
                               /\ fetches[k].url = fetches[i].url
                               /\ fetches[k].pc = "stored"}
              IN /\ entry \in {fetches[i].copy, fetches[j].copy}
                                 \cup {fetches[k].copy : k \in others}
                 /\ others = {} => entry \in {fetches[i].copy, fetches[j].copy}
           /\ \A k \in DOMAIN fetches :
                (/\ k > fetches[i].storedAt /\ k > fetches[j].storedAt
                 /\ fetches[k].method = "GET"
                 /\ fetches[k].url = fetches[i].url) =>
                  /\ ~fetches[k].network
                  /\ fetches[k].pc = "done" => fetches[k].response \in Responses

\* two concurrent GETs got different network responses, both stored, and a
\* third GET for the URL was then served the stored one from the cache
C11_Witness ==
  \E i, j, k \in DOMAIN fetches :
    /\ Concurrent(i, j)
    /\ fetches[i].pc = "stored" /\ fetches[j].pc = "stored"
    /\ fetches[i].copy # fetches[j].copy
    /\ k > fetches[i].storedAt /\ k > fetches[j].storedAt
    /\ fetches[k].url = fetches[i].url
    /\ fetches[k].pc = "done"
    /\ fetches[k].response = Bucket(caches)[fetches[i].url]

\* C12: when the network fetch of a GET fails, the caller gets the failure,
\* the step leaves the cache unchanged and the handler stores nothing; while
\* the URL has no entry, every later GET for it goes to the network again.
C12_NetworkFailureNotStored ==
  /\ [](\A i \in DOMAIN fetches :
          fetches[i].response = NetworkError =>
            /\ fetches[i].pc = "done"
            /\ fetches[i].respondWith
            /\ fetches[i].network
            /\ fetches[i].copy = Undefined
            /\ fetches[i].storedAt = 0
            /\ \A j \in DOMAIN fetches :
                 (/\ j > i
                  /\ fetches[j].method = "GET"
                  /\ fetches[j].url = fetches[i].url
                  /\ fetches[j].pc # "match"
                  /\ fetches[i].url \notin CachedUrls(caches)) =>
                   fetches[j].network)
  /\ [][\A i \in DOMAIN fetches :
          (fetches[i].pc = "network" /\ fetches'[i].response = NetworkError) =>
            caches' = caches]_vars

\* a network fetch failed, and a later GET for the same URL, still without
\* an entry, went to the network and got a response
C12_Witness ==
  \E i, j \in DOMAIN fetches :
    /\ i < j
    /\ fetches[i].response = NetworkError
    /\ fetches[j].url = fetches[i].url
    /\ ~ToBoolean(fetches[j].atEvent)
    /\ fetches[j].pc = "put"
    /\ fetches[i].url \notin CachedUrls(caches)

\* the step is one of the install listener: the bucket is opened and, when
\* addAll resolves, holds the assets
InstallStep ==
  \/ state = "parsed" /\ state' = "installing"
  \/ state = "installing" /\ state' = "installed"

\* the step completes the store of fetch event i, a GET that missed the cache
\* and got a network response: that response becomes the entry of its URL
\* in the bucket "bailsaas-v1" and nothing else changes in the cache
MissStoreStep(i) ==
  /\ fetches[i].pc = "put" /\ fetches'[i].pc = "stored"
  /\ fetches[i].method = "GET"
  /\ ~ToBoolean(fetches[i].matched)
  /\ fetches[i].network
  /\ fetches[i].copy \in Responses
  /\ Len(caches') = Len(caches)
  /\ \A b \in DOMAIN caches :
       /\ caches'[b].name = caches[b].name
       /\ caches'[b].entries =
            IF caches[b].name = <<"bailsaas-v1">>
            THEN (fetches[i].url :> fetches[i].copy) @@ caches[b].entries
            ELSE caches[b].entries

\* C13: every bucket is named "bailsaas-v1"; a step that changes the cache is
\* a step of install or the store of a GET that missed the cache and got a
\* network response; a step that serves a GET from the cache, dispatches a
\* fetch event (GET or not), activates the worker, handles a push or a
\* notificationclick, or opens a window leaves the cache unchanged.
C13_CacheWrittenByInstallAndMissOnly ==
  /\ [](\A b \in DOMAIN caches : caches[b].name = <<"bailsaas-v1">>)
  /\ [][caches' # caches =>
          \/ InstallStep
          \/ \E i \in DOMAIN fetches : MissStoreStep(i)]_vars
  /\ [][(\/ state \in {"installed", "activating"} /\ state' # state
         \/ Len(fetches') # Len(fetches)
         \/ \E i \in DOMAIN fetches :
              fetches[i].pc = "match" /\ fetches'[i].pc = "done"
         \/ pushes' # pushes
         \/ notifications' # notifications
         \/ clicks' # clicks
         \/ windows' # windows) => caches' = caches]_vars

\* a miss has been stored next to the assets, and a push and a click have
\* been handled
C13_Witness ==
  /\ Cardinality(CachedUrls(caches)) = 3
  /\ \E i \in DOMAIN fetches : fetches[i].pc = "stored"
  /\ pushes # <<>>
  /\ \E k \in DOMAIN clicks : clicks[k].pc = "done"

---------------------------------------------------------------------------
(* The notificationclick listener, step by step *)

\* the notification has no url in its data
NoUrl(n) == n.data.t \in {"undefined", "null"} \/ "url" \notin DOMAIN n.data.f

\* C14: a notificationclick closes the clicked notification before anything
\* else and opens no window in that step; when its matchAll settles it
\* either focuses one window that was open, opening none, or opens exactly
\* one new window, focusing none; a notification without url in its data is
\* given the target "/".
C14_CloseThenFocusXorOpen ==
  /\ [](\A k \in DOMAIN clicks :
          /\ notifications[clicks[k].notification].closed
          /\ clicks[k].pc = "matchAll" => clicks[k].action = "none"
          /\ clicks[k].pc = "done" =>
               /\ clicks[k].action \in {"focus", "open"}
               /\ clicks[k].client \in DOMAIN windows
          /\ NoUrl(notifications[clicks[k].notification]) =>
               clicks[k].url = Str(<<"/">>))
  /\ [][Len(clicks') # Len(clicks) =>
          /\ windows' = windows
          /\ ~notifications[clicks'[Len(clicks')].notification].closed
          /\ notifications'[clicks'[Len(clicks')].notification].closed]_vars
  /\ [][\A k \in DOMAIN clicks :
          (clicks[k].pc = "matchAll" /\ clicks'[k].pc = "done") =>
            \/ /\ clicks'[k].action = "focus"
               /\ clicks'[k].client \in DOMAIN windows
               /\ windows' = windows
            \/ /\ clicks'[k].action = "open"
               /\ Len(windows') = Len(windows) + 1
               /\ SubSeq(windows', 1, Len(windows)) = windows
               /\ clicks'[k].client = Len(windows')
               /\ windows'[Len(windows')].url = Resolve(clicks[k].url.s)]_vars

\* a notification a page showed without data has been clicked: the target
\* was "/" and a window was opened at the start page
C14_Witness ==
  \E k \in DOMAIN clicks :
    /\ notifications[clicks[k].notification].data = Null
    /\ clicks[k].pc = "done"
    /\ clicks[k].url = Str(<<"/">>)
    /\ clicks[k].action = "open"
    /\ windows[clicks[k].client].url = <<Origin, "/">>

---------------------------------------------------------------------------
(* Lifecycle *)

\* C15: the install listener sets the skip-waiting flag; an installed worker
\* becomes activated (it does not stay waiting); once it is the active worker
\* every open window is controlled by it; a fetch event is dispatched only to
\* the activated worker, with both assets in the bucket; the worker is
\* installed only with both assets stored, is activated only from installed,
\* and after a failed population stays redundant.
C15_LifecycleOrder ==
  /\ [](state # "parsed" => skipWaitingFlag)
  /\ [](state \in {"activating", "activated"} =>
          \A w \in DOMAIN windows : windows[w].controlled)
  /\ [](fetches # <<>> =>
          /\ state = "activated"
          /\ {<<Origin, "/">>, <<Origin, "/static/manifest.webmanifest">>}
               \subseteq DOMAIN Bucket(caches))
  /\ [][/\ state' = "installed" =>
             /\ state \in {"installing", "installed"}
             /\ {<<Origin, "/">>, <<Origin, "/static/manifest.webmanifest">>}
                  \subseteq DOMAIN Bucket(caches')
        /\ state' = "activating" => state \in {"installed", "activating"}
        /\ state' = "activated" => state \in {"activating", "activated"}
        /\ state = "redundant" => state' = "redundant"
        /\ (state = "installing" /\ state' # "installed" /\ state' # state) =>
             state' = "redundant" /\ caches' = caches]_vars
  /\ (state = "installed") ~> (state = "activated")

\* the worker is activated, an open window is controlled by it and a fetch
\* event has been dispatched to it
C15_Witness ==
  /\ state = "activated"
  /\ windows # <<>>
  /\ windows[1].controlled
  /\ fetches # <<>>

====
